---------------------------- MODULE Spec2Model ----------------------------
(* Model of the model-catalog scripts of ekailabs/ekai-gateway:             *)
(*   model_catalog/build_ui.py         the Bundler                          *)
(*   model_catalog/verify.py           the Validator, directory of files    *)
(*   model_catalog/validate_models.py  the Validator, combined document     *)
(*   gateway/src/model_catalog/verify.py  the Validator, one fixed file     *)
(* Strings are sequences of one-character strings, so that sorting,         *)
(* Path.stem and the f-string that builds an id are computed, not assumed.  *)
EXTENDS Integers, Sequences, FiniteSets, TLC

VARIABLES
    \* ---- Bundler (build_ui.py)
    dirExists,   \* models_dir.exists()
    dir,         \* the models directory: file name -> what reading it gives
    cwd,         \* Path.cwd() of the process, a sequence of path components
    pc,          \* position of main(): "main", "load", "write", "done", "fatal"
    exc,         \* the exception that ended the run, "none" while there is none
    todo,        \* load_models: the files of the for loop still to visit
    models,      \* load_models: the list models
    stdout,      \* the lines printed by the run
    uiExists,    \* the directory ui/ exists
    bundleFile,  \* ui/models.bundle.json: the documents it holds (<<>>: no file)
    now,         \* the clock read by datetime.now; it advances between runs
    \* ---- Validator (verify.py, validate_models.py, gateway verify.py)
    script,      \* which script runs: "verify", "validate_models", "gateway_verify"
    schema,      \* the schema document json.load gave
    vdir,        \* verify.py: the models directory, file name -> what reading it gives
    data,        \* the one data document of validate_models.py and gateway verify.py
    vpc,         \* position of the script: "start", "loop", "done", "fatal"
    vexc,        \* the exception that ended the run, "none" while there is none
    vtodo,       \* the entries of the for loop still to visit
    vout         \* the lines printed by the run

bvars == <<dirExists, dir, cwd, pc, exc, todo, models, stdout, uiExists, bundleFile, now>>
vvars == <<script, schema, vdir, data, vpc, vexc, vtodo, vout>>
vars == <<bvars, vvars>>

\* ------------------------------------------------------------------ bounds
MaxFiles == 3
MaxRuns == 2
MaxEntries == 3

\* ----------------------------------------------------------------- strings
DotJson == <<".", "j", "s", "o", "n">>
Unknown == <<"u", "n", "k", "n", "o", "w", "n">>
Slash == <<"/">>

\* ord(c) of the characters file names are built from
Ord(c) ==
    CASE c = "-" -> 45
      [] c = "." -> 46
      [] c = "B" -> 66
      [] c = "a" -> 97
      [] c = "j" -> 106
      [] c = "n" -> 110
      [] c = "o" -> 111
      [] c = "s" -> 115
      [] c = "t" -> 116
      [] c = "x" -> 120
      [] OTHER -> 0

\* str.__lt__: the first differing character decides, a proper prefix is smaller
StrLess(a, b) ==
    \E i \in 1..(Len(b)) :
        /\ \A k \in 1..(i - 1) : k <= Len(a) /\ a[k] = b[k]
        /\ \/ i = Len(a) + 1
           \/ i <= Len(a) /\ Ord(a[i]) < Ord(b[i])

\* ------------------------------------------------------------- JSON values
Absent == [t |-> "absent", s |-> <<>>, n |-> 0]
Null == [t |-> "null", s |-> <<>>, n |-> 0]
Str(s) == [t |-> "str", s |-> s, n |-> 0]
Num(n) == [t |-> "int", s |-> <<>>, n |-> n]

Keys == {"provider", "model_name", "id", "__filename"}

\* bool(v), as the operator `or` tests it
Truthy(v) ==
    CASE v.t = "str" -> v.s # <<>>
      [] v.t = "int" -> v.n # 0
      [] OTHER -> FALSE

Digit(n) == CASE n = 0 -> "0" [] n = 5 -> "5" [] OTHER -> "?"

\* format(v, ""), what an f-string field renders
PyStr(v) ==
    CASE v.t = "str" -> v.s
      [] v.t = "int" -> <<Digit(v.n)>>
      [] v.t = "null" -> <<"N", "o", "n", "e">>
      [] OTHER -> <<>>

\* dict.get(key): None when the key is absent
Get(obj, key) == IF obj[key] = Absent THEN Null ELSE obj[key]

\* faulty variant: the default is taken only when the key is absent
OrIfNone(a, b) == IF a = Null THEN b ELSE a

\* a or b
Or(a, b) == IF Truthy(a) THEN a ELSE b

\* --------------------------------------------------------------- pathlib
\* str.rfind(".") + 1: the 1-based index of the last dot, 0 when there is none
RFindDot(name) ==
    LET dots == {k \in 1..Len(name) : name[k] = "."}
    IN  IF dots = {} THEN 0 ELSE CHOOSE k \in dots : \A j \in dots : j <= k

\* PurePath.stem: the name up to its last dot, the whole name when that dot
\* is its first or last character
Stem(name) ==
    LET i == RFindDot(name)
    IN  IF 1 < i /\ i < Len(name) THEN SubSeq(name, 1, i - 1) ELSE name

\* fnmatch of '*.json' on a name
MatchesJson(name) ==
    /\ Len(name) >= Len(DotJson)
    /\ SubSeq(name, Len(name) - Len(DotJson) + 1, Len(name)) = DotJson

\* Path.relative_to(other) succeeds only when other's parts are a prefix
IsRelativeTo(path, other) ==
    /\ Len(other) <= Len(path)
    /\ SubSeq(path, 1, Len(other)) = other

Base == <<"repo", "model_catalog">>
ModelsDir == Base \o <<"models">>
UiDir == Base \o <<"ui">>
BundlePath == UiDir \o <<"models.bundle.json">>

\* --------------------------------------------------------------- sorting
RECURSIVE Insert(_, _)
Insert(x, s) ==
    IF s = <<>> THEN <<x>>
    ELSE IF StrLess(x, Head(s)) THEN <<x>> \o s
    ELSE <<Head(s)>> \o Insert(x, Tail(s))

\* faulty variant: the scan order is kept
Unsorted(s) == s

\* sorted(...) of the paths of one directory: by name
RECURSIVE Sorted(_)
Sorted(s) == IF s = <<>> THEN <<>> ELSE Insert(Head(s), Sorted(Tail(s)))

\* the orders in which a directory scan may yield the set S of names
Orders(S) ==
    {o \in [1..Cardinality(S) -> S] : \A i, j \in 1..Cardinality(S) : i # j => o[i] # o[j]}

\* models_dir.glob('*.json'), in one of the orders the scan may yield
Glob(d) == Orders({name \in DOMAIN d : MatchesJson(name)})

\* ------------------------------------------------------- inputs of a run
FileNames ==
    { <<"a">> \o DotJson, <<"B">> \o DotJson, DotJson, <<"a", ".", "t", "x", "t">> }

Obj(p, m, i, f) ==
    [k \in Keys |-> CASE k = "provider" -> p [] k = "model_name" -> m
                      [] k = "id" -> i [] OTHER -> f]

Objects ==
    {Obj(p, m, Absent, Absent) :
        p \in {Absent, Str(<<>>), Str(<<"o">>), Num(5)}, m \in {Absent, Str(<<"g">>)}}
    \cup {Obj(Absent, Absent, Str(<<"z">>), Str(<<"z">>)),
          Obj(Str(<<"o">>), Str(<<"g">>), Str(<<"z">>), Num(0))}

NoObj == Obj(Absent, Absent, Absent, Absent)

\* what open + json.load of a file gives: an object, another JSON value (a
\* list), a JSONDecodeError, or an OSError from open
Contents ==
    {[kind |-> "object", obj |-> o] : o \in Objects}
    \cup {[kind |-> k, obj |-> NoObj] : k \in {"nonobject", "malformed", "unreadable"}}

Dirs ==
    UNION {[S -> Contents] : S \in {T \in SUBSET FileNames : Cardinality(T) <= MaxFiles}}

Cwds == {<<>>, Base, <<"tmp">>}

\* ------------------------------------------------------------ the Bundler
Line(kind, name, err, n) == [kind |-> kind, name |-> name, err |-> err, n |-> n]

BInit ==
    /\ dirExists \in BOOLEAN
    /\ dir \in IF dirExists THEN Dirs ELSE {<<>>}
    /\ cwd \in Cwds
    /\ pc = "main"
    /\ exc = "none"
    /\ todo = <<>>
    /\ models = <<>>
    /\ stdout = <<>>
    /\ uiExists = FALSE
    /\ bundleFile = <<>>
    /\ now = 1
    \* no Validator script runs
    /\ script = "none"
    /\ schema = [required |-> {}]
    /\ vdir = <<>>
    /\ data = [kind |-> "none"]
    /\ vpc = "done"
    /\ vexc = "none"
    /\ vtodo = <<>>
    /\ vout = <<>>

\* main, lines 36-41, and the head of load_models, lines 8-9
Main ==
    /\ pc = "main"
    /\ IF ~dirExists
       THEN /\ pc' = "fatal"
            /\ exc' = "SystemExit"
            /\ UNCHANGED <<todo, models>>
       ELSE /\ pc' = "load"
            /\ models' = <<>>
            /\ \E scan \in Glob(dir) : todo' = Sorted(scan)
            /\ exc' = "none"
    /\ UNCHANGED <<dirExists, dir, cwd, stdout, uiExists, bundleFile, now>>
    /\ UNCHANGED vvars

\* faulty variant: a key __filename of the source file is kept
RecordSetDefault(obj, name) ==
    LET provider == Or(Get(obj, "provider"), Str(Unknown))
        model_name == Or(Get(obj, "model_name"), Str(Stem(name)))
        withId == [obj EXCEPT !["id"] = Str(PyStr(provider) \o Slash \o PyStr(model_name))]
    IN  IF obj["__filename"] = Absent THEN [withId EXCEPT !["__filename"] = Str(name)] ELSE withId

\* the record lines 13-16 make of the parsed object obj of the file named name
Record(obj, name) ==
    LET provider == Or(Get(obj, "provider"), Str(Unknown))
        model_name == Or(Get(obj, "model_name"), Str(Stem(name)))
        withId == [obj EXCEPT !["id"] = Str(PyStr(provider) \o Slash \o PyStr(model_name))]
    IN  [withId EXCEPT !["__filename"] = Str(name)]

\* faulty variant: a JSON value that is no object is appended like one
RaisesOnReadOnly(content) ==
    CASE content.kind = "unreadable" -> "OSError"
      [] content.kind = "malformed" -> "JSONDecodeError"
      [] OTHER -> "none"

\* the exception the try body raises on a file, "none" when it appends
Raises(content) ==
    CASE content.kind = "unreadable" -> "OSError"
      [] content.kind = "malformed" -> "JSONDecodeError"
      [] content.kind = "nonobject" -> "AttributeError"
      [] OTHER -> "none"

\* one iteration of the for loop of load_models, lines 9-19
LoadFile ==
    /\ pc = "load"
    /\ todo # <<>>
    /\ LET p == Head(todo)
           e == Raises(dir[p])
       IN  IF e = "none"
           THEN /\ models' = Append(models, Record(dir[p].obj, p))
                /\ stdout' = stdout
           ELSE /\ stdout' = Append(stdout, Line("warn", p, e, 0))
                /\ models' = models
    /\ todo' = Tail(todo)
    /\ UNCHANGED <<dirExists, dir, cwd, pc, exc, uiExists, bundleFile, now>>
    /\ UNCHANGED vvars

\* load_models returns, line 20
LoadDone ==
    /\ pc = "load"
    /\ todo = <<>>
    /\ pc' = "write"
    /\ UNCHANGED <<dirExists, dir, cwd, exc, todo, models, stdout, uiExists, bundleFile, now>>
    /\ UNCHANGED vvars

\* faulty variant: the bundle file is opened for appending
Appended(old, doc) == Append(old, doc)

\* bundle_path.open('w') and json.dump, lines 30-31: the old content is dropped
Written(old, doc) == <<doc>>

\* write_bundle, lines 23-32: the file is opened with 'w' and written, then
\* the [ok] line is formatted with relative_to(Path.cwd())
WriteBundle ==
    /\ pc = "write"
    /\ uiExists' = TRUE
    /\ bundleFile' = Written(bundleFile, [generated_at |-> now, models |-> models])
    /\ IF IsRelativeTo(BundlePath, cwd)
       THEN /\ stdout' = Append(stdout, Line("ok", <<>>, "none", Len(models)))
            /\ pc' = "done"
            /\ exc' = "none"
       ELSE /\ stdout' = stdout
            /\ pc' = "fatal"
            /\ exc' = "ValueError"
    /\ UNCHANGED <<dirExists, dir, cwd, todo, models, now>>
    /\ UNCHANGED vvars

\* the script is run again on the unchanged directory, later
Rerun ==
    /\ pc \in {"done", "fatal"}
    /\ now < MaxRuns
    /\ now' = now + 1
    /\ pc' = "main"
    /\ exc' = "none"
    /\ stdout' = <<>>
    /\ todo' = <<>>
    /\ models' = <<>>
    /\ UNCHANGED <<dirExists, dir, cwd, uiExists, bundleFile>>
    /\ UNCHANGED vvars

BNext == Main \/ LoadFile \/ LoadDone \/ WriteBundle \/ Rerun

\* the runs of build_ui.py
Spec == BInit /\ [][BNext]_vars

\* ------------------------------------------------------ Bundler: claims
\* load_models has returned in this run
Loaded == pc \in {"write", "done"} \/ exc = "ValueError"

Globbed == {name \in DOMAIN dir : MatchesJson(name)}
OfKind(K) == {name \in Globbed : dir[name].kind \in K}
Warned == {i \in 1..Len(stdout) : stdout[i].kind = "warn"}

\* C1, as amended: once load_models has returned, models holds exactly one
\* record per *.json file whose content parses to a JSON object, and exactly
\* one '[warn] Skipping' line was printed for every other *.json file
\* (malformed, unreadable, or valid JSON that is not an object), naming it.
C1_RecordsAndWarnings ==
    Loaded =>
        /\ Len(models) = Cardinality(OfKind({"object"}))
        /\ Cardinality(Warned) = Cardinality(OfKind({"nonobject", "malformed", "unreadable"}))
        /\ {stdout[i].name : i \in Warned} = OfKind({"nonobject", "malformed", "unreadable"})

C1_Witness ==
    /\ pc = "done"
    /\ Len(models) = 1
    /\ Cardinality(Warned) = 2
    /\ OfKind({"malformed"}) # {}
    /\ OfKind({"nonobject"}) # {}

\* C1 as stated: with every *.json file readable, N syntactically valid files
\* (holding any JSON value) and M malformed ones give N records and M warnings.
C1_AsStated ==
    (Loaded /\ OfKind({"unreadable"}) = {}) =>
        /\ Len(models) = Cardinality(OfKind({"object", "nonobject"}))
        /\ Cardinality(Warned) = Cardinality(OfKind({"malformed"}))

\* the provider and model_name parts of an id, with the default taken when
\* Defaulted holds of the source's value
IdOf(src, name, Defaulted(_)) ==
    LET p == IF Defaulted(src["provider"]) THEN Unknown ELSE PyStr(src["provider"])
        m == IF Defaulted(src["model_name"]) THEN Stem(name) ELSE PyStr(src["model_name"])
    IN  Str(p \o Slash \o m)

IsAbsent(v) == v = Absent
IsAbsentOrFalsy(v) == v = Absent \/ ~Truthy(v)

\* a step of load_models that appends a record
Appends == pc = "load" /\ Len(models') = Len(models) + 1

\* C2, as amended: the id of every record appended is provider + "/" +
\* model_name, where provider is the file's provider value, or "unknown" when
\* the key is absent or its value is falsy (null, "", 0, false), and model_name
\* is the file's model_name value, or the file's stem when the key is absent
\* or its value is falsy.
C2_IdDerivation ==
    [][Appends =>
        models'[Len(models')]["id"] = IdOf(dir[Head(todo)].obj, Head(todo), IsAbsentOrFalsy)]_vars

C2_Witness ==
    /\ pc = "done"
    /\ \E i \in 1..Len(models) : models[i]["id"] = Str(Unknown \o Slash \o <<"a">>)
    /\ \E i \in 1..Len(models) :
        /\ models[i]["id"] = Str(<<"o">> \o Slash \o <<"g">>)
        /\ dir[models[i]["__filename"].s].obj["provider"] = Str(<<"o">>)
    /\ \E i \in 1..Len(models) :
        /\ models[i]["id"] = Str(Unknown \o Slash \o <<"g">>)
        /\ dir[models[i]["__filename"].s].obj["provider"] = Str(<<>>)

\* C2 as stated: the defaults are taken only when the key is absent.
C2_AsStated ==
    [][Appends =>
        models'[Len(models')]["id"] = IdOf(dir[Head(todo)].obj, Head(todo), IsAbsent)]_vars

HasBoth(rec) == rec["id"] # Absent /\ rec["__filename"] # Absent

\* C3: at every step, every record of models and of the written bundle has an
\* id and an __filename; a record enters models only in a step of the loop, at
\* the end, with __filename the name of the file being visited, and the
\* records already there are left as they are; the bundle written holds models.
C3_IdAndFilename ==
    [][/\ \A i \in 1..Len(models') : HasBoth(models'[i])
       /\ \A d \in 1..Len(bundleFile') :
            \A i \in 1..Len(bundleFile'[d].models) : HasBoth(bundleFile'[d].models[i])
       /\ bundleFile' # bundleFile => bundleFile'[Len(bundleFile')].models = models
       /\ IF Len(models') > Len(models)
          THEN /\ Appends
               /\ todo # <<>>
               /\ models'[Len(models')]["__filename"] = Str(Head(todo))
               /\ SubSeq(models', 1, Len(models)) = models
          ELSE models' = models \/ models' = <<>>]_vars

C3_Witness ==
    /\ pc = "done"
    /\ bundleFile # <<>>
    /\ \E i \in 1..Len(bundleFile[1].models) :
        LET rec == bundleFile[1].models[i]
        IN  /\ rec["__filename"].t = "str"
            /\ rec["__filename"].s \in DOMAIN dir
            /\ dir[rec["__filename"].s].obj["__filename"] = Num(0)
            /\ dir[rec["__filename"].s].obj["id"] = Str(<<"z">>)

\* C4 as stated: a run ends fatally only when the models directory does not
\* exist.
C4_AsStated == pc = "fatal" => ~dirExists

\* C8: the records of models are in strictly ascending order of the file
\* names they carry, whatever was skipped between them.
C8_AscendingFileNames ==
    \A i, j \in 1..Len(models) :
        i < j => StrLess(models[i]["__filename"].s, models[j]["__filename"].s)

C8_Witness ==
    /\ pc = "done"
    /\ Len(models) = 2
    /\ \E w \in Warned :
        /\ StrLess(models[1]["__filename"].s, stdout[w].name)
        /\ StrLess(stdout[w].name, models[2]["__filename"].s)

\* C9: a run that finds a bundle of an earlier run leaves a bundle file that
\* holds one document, whose models equal those of the bundle it replaced.
C9_RerunSameModels ==
    [][(pc = "write" /\ bundleFile # <<>>) =>
        /\ Len(bundleFile') = 1
        /\ bundleFile'[1].models = bundleFile[1].models]_vars

C9_Witness ==
    /\ pc = "done"
    /\ now = 2
    /\ Len(bundleFile) = 1
    /\ bundleFile[1].generated_at = 2
    /\ Len(bundleFile[1].models) >= 2
    /\ Warned # {}

\* ----------------------------------------------------------- the Validator
\* A model record as the schema sees it: provider and model_name are absent,
\* a string or a number; pricing is absent or an object whose field input is
\* absent, a string or a number.
Inst(p, m, pk, pi) == [provider |-> p, model_name |-> m, pricing |-> [k |-> pk, input |-> pi]]

Insts ==
    { Inst("str", "str", "absent", "absent"),     \* conforms
      Inst("str", "str", "obj", "num"),           \* conforms
      Inst("absent", "str", "absent", "absent"),  \* a top-level field is missing
      Inst("absent", "absent", "obj", "num"),     \* two top-level fields are missing
      Inst("num", "str", "obj", "absent"),        \* a wrong type and a missing nested field
      Inst("str", "str", "obj", "absent"),        \* a nested field is missing
      Inst("str", "absent", "obj", "str") }       \* a missing field and a nested wrong type

NoInst == Inst("absent", "absent", "absent", "absent")

\* The schema documents of a run: provider and model_name are strings,
\* pricing an object with a required number input; the top-level fields the
\* schema requires vary.
Schemas == {[required |-> R] : R \in {{"provider", "model_name"}, {"provider"}}}

Error(path, validator, field) == [path |-> path, validator |-> validator, field |-> field]

\* jsonschema's iter_errors(instance): one error per violated constraint. The
\* path of a `required` error is the path of the object that lacks the field;
\* the field is named in its message only.
Errors(inst, sch) ==
    {Error(<<>>, "required", f) : f \in {g \in sch.required : inst[g] = "absent"}}
    \cup {Error(<<f>>, "type", "") : f \in {g \in {"provider", "model_name"} : inst[g] = "num"}}
    \cup (IF inst.pricing.k = "obj" /\ inst.pricing.input = "absent"
          THEN {Error(<<"pricing">>, "required", "input")} ELSE {})
    \cup (IF inst.pricing.k = "obj" /\ inst.pricing.input = "str"
          THEN {Error(<<"pricing", "input">>, "type", "")} ELSE {})

\* jsonschema's best_match: an error highest up in the instance; among equals
\* the order of iteration decides
BestMatches(errs) == {e \in errs : \A o \in errs : Len(e.path) <= Len(o.path)}

\* faulty variant: the first error iter_errors yields is raised, whichever it is
RaisedFirst(inst, sch) == {e \in Errors(inst, sch) : TRUE}

\* validate(instance, schema): the errors one of which is raised; none when
\* the instance conforms
Raised(inst, sch) == BestMatches(Errors(inst, sch))

\* faulty variant: the path of the root is the empty string
JoinPathEmptyRoot(path) ==
    IF path = <<>> THEN <<>>
    ELSE [i \in 1..(2 * Len(path) - 1) |-> IF i % 2 = 1 THEN path[(i + 1) \div 2] ELSE "/"]

\* "/".join(str(p) for p in e.path) or "<root>", verify.py line 34
JoinPath(path) ==
    IF path = <<>> THEN <<"<root>">>
    ELSE [i \in 1..(2 * Len(path) - 1) |-> IF i % 2 = 1 THEN path[(i + 1) \div 2] ELSE "/"]

VLine(kind, name, errs, path, lineno, colno) ==
    [kind |-> kind, name |-> name, errs |-> errs, path |-> path,
     lineno |-> lineno, colno |-> colno]

\* what open + json.load of a data file gives: a document, a JSONDecodeError
\* with its position, or an OSError from open
VContents ==
    {[kind |-> "json", inst |-> i, lineno |-> 0, colno |-> 0] : i \in Insts}
    \cup {[kind |-> "malformed", inst |-> NoInst, lineno |-> 1, colno |-> 1],
          [kind |-> "malformed", inst |-> NoInst, lineno |-> 2, colno |-> 7],
          [kind |-> "unreadable", inst |-> NoInst, lineno |-> 0, colno |-> 0]}

VDirs ==
    UNION {[S -> VContents] : S \in {T \in SUBSET FileNames : Cardinality(T) <= MaxFiles}}

ModelNames == {<<"g">>, <<"c">>, <<"m">>}

SeqsUpTo(S, n) == UNION {[1..k -> S] : k \in 0..n}

\* the combined document of validate_models.py: all_models, and the entries
\* that are top-level keys
Docs ==
    {[kind |-> "json", inst |-> NoInst, lineno |-> 0, colno |-> 0,
      all_models |-> a, entries |-> e] :
        a \in SeqsUpTo(ModelNames, MaxEntries),
        e \in UNION {[S -> Insts] : S \in SUBSET ModelNames}}
    \cup {[kind |-> "malformed", inst |-> NoInst, lineno |-> 2, colno |-> 7,
           all_models |-> <<>>, entries |-> <<>>]}

\* models/gpt5.json of gateway verify.py
SingleDocs ==
    {[kind |-> c.kind, inst |-> c.inst, lineno |-> c.lineno, colno |-> c.colno,
      all_models |-> <<>>, entries |-> <<>>] : c \in {d \in VContents : d.kind # "unreadable"}}

VInit ==
    /\ script \in {"verify", "validate_models", "gateway_verify"}
    /\ schema \in Schemas
    /\ vdir \in IF script = "verify" THEN VDirs ELSE {<<>>}
    /\ data \in CASE script = "validate_models" -> Docs
                  [] script = "gateway_verify" -> SingleDocs
                  [] OTHER -> {[kind |-> "none"]}
    /\ vpc = "start"
    /\ vexc = "none"
    /\ vtodo = <<>>
    /\ vout = <<>>
    \* the Bundler does not run
    /\ dirExists = FALSE
    /\ dir = <<>>
    /\ cwd = <<>>
    /\ pc = "done"
    /\ exc = "none"
    /\ todo = <<>>
    /\ models = <<>>
    /\ stdout = <<>>
    /\ uiExists = FALSE
    /\ bundleFile = <<>>
    /\ now = 1

\* ---- verify.py
\* main, lines 9-16: the schema is loaded and the files are globbed and sorted
VerifyStart ==
    /\ script = "verify"
    /\ vpc = "start"
    /\ \E scan \in Glob(vdir) : vtodo' = Sorted(scan)
    /\ vpc' = "loop"
    /\ UNCHANGED <<script, schema, vdir, data, vexc, vout>>
    /\ UNCHANGED bvars

\* faulty variant: except Exception comes first and takes the JSONDecodeError too
VerifyLinesOneHandler(name, content, sch) ==
    CASE content.kind \in {"malformed", "unreadable"} ->
            {<<VLine("unreadable", name, <<>>, <<>>, 0, 0)>>}
      [] Raised(content.inst, sch) = {} ->
            {<<VLine("follows_schema", name, <<>>, <<>>, 0, 0)>>}
      [] OTHER ->
            {<<VLine("schema_error", name, <<e>>, JoinPath(e.path), 0, 0)>> :
                e \in Raised(content.inst, sch)}

\* the lines one iteration of the loop can print, lines 17-35
VerifyLines(name, content, sch) ==
    CASE content.kind = "malformed" ->
            {<<VLine("invalid_json", name, <<>>, <<>>, content.lineno, content.colno)>>}
      [] content.kind = "unreadable" ->
            {<<VLine("unreadable", name, <<>>, <<>>, 0, 0)>>}
      [] Raised(content.inst, sch) = {} ->
            {<<VLine("follows_schema", name, <<>>, <<>>, 0, 0)>>}
      [] OTHER ->
            {<<VLine("schema_error", name, <<e>>, JoinPath(e.path), 0, 0)>> :
                e \in Raised(content.inst, sch)}

\* one iteration of the for loop, lines 16-35
VerifyFile ==
    /\ script = "verify"
    /\ vpc = "loop"
    /\ vtodo # <<>>
    /\ \E ls \in VerifyLines(Head(vtodo), vdir[Head(vtodo)], schema) : vout' = vout \o ls
    /\ vtodo' = Tail(vtodo)
    /\ UNCHANGED <<script, schema, vdir, data, vpc, vexc>>
    /\ UNCHANGED bvars

\* the for loop of a script is exhausted and the script ends
LoopDone ==
    /\ script \in {"verify", "validate_models"}
    /\ vpc = "loop"
    /\ vtodo = <<>>
    /\ vpc' = "done"
    /\ UNCHANGED <<script, schema, vdir, data, vexc, vtodo, vout>>
    /\ UNCHANGED bvars

\* ---- validate_models.py
\* the errors of the whole document: those of its entries, below their keys
WholeErrors(doc, sch) ==
    UNION {{Error(<<n>> \o e.path, e.validator, e.field) : e \in Errors(doc.entries[n], sch)} :
            n \in DOMAIN doc.entries}

\* lines 5-25: the documents are loaded, the whole file is validated, and the
\* loop over all_models begins
ValidateStart ==
    /\ script = "validate_models"
    /\ vpc = "start"
    /\ IF data.kind = "malformed"
       THEN /\ vpc' = "fatal"
            /\ vexc' = "JSONDecodeError"
            /\ UNCHANGED <<vtodo, vout>>
       ELSE /\ vpc' = "loop"
            /\ vexc' = "none"
            /\ vtodo' = data.all_models
            /\ LET errs == BestMatches(WholeErrors(data, schema))
               IN  IF errs = {}
                   THEN vout' = <<VLine("whole_valid", <<>>, <<>>, <<>>, 0, 0)>>
                   ELSE \E e \in errs :
                            vout' = <<VLine("whole_error", <<>>, <<e>>, <<>>, 0, 0),
                                      VLine("whole_path", <<>>, <<>>, e.path, 0, 0)>>
    /\ UNCHANGED <<script, schema, vdir, data>>
    /\ UNCHANGED bvars

\* faulty variant: a name that is no top-level key ends the loop
RestAfterBreak(names, doc) ==
    IF Head(names) \notin DOMAIN doc.entries THEN <<>> ELSE Tail(names)

\* the names the for loop goes on with after the one it visits
Rest(names, doc) == Tail(names)

\* the lines one iteration of the loop can print, lines 26-39
ValidateLines(name, doc, sch) ==
    CASE name \notin DOMAIN doc.entries ->
            {<<VLine("not_found", name, <<>>, <<>>, 0, 0)>>}
      [] Raised(doc.entries[name], sch) = {} ->
            {<<VLine("valid", name, <<>>, <<>>, 0, 0)>>}
      [] OTHER ->
            {<<VLine("failed", name, <<e>>, <<>>, 0, 0),
               VLine("at_path", name, <<>>, e.path, 0, 0)>> :
                e \in Raised(doc.entries[name], sch)}

\* one iteration of the for loop, lines 25-39
ValidateEntry ==
    /\ script = "validate_models"
    /\ vpc = "loop"
    /\ vtodo # <<>>
    /\ \E ls \in ValidateLines(Head(vtodo), data, schema) : vout' = vout \o ls
    /\ vtodo' = Rest(vtodo, data)
    /\ UNCHANGED <<script, schema, vdir, data, vpc, vexc>>
    /\ UNCHANGED bvars

\* ---- gateway/src/model_catalog/verify.py, the whole script
GatewayVerify ==
    /\ script = "gateway_verify"
    /\ vpc = "start"
    /\ IF data.kind = "malformed"
       THEN /\ vpc' = "fatal"
            /\ vexc' = "JSONDecodeError"
            /\ vout' = vout
       ELSE /\ vpc' = "done"
            /\ vexc' = "none"
            /\ LET errs == Raised(data.inst, schema)
               IN  IF errs = {}
                   THEN vout' = <<VLine("g_valid", <<>>, <<>>, <<>>, 0, 0)>>
                   ELSE \E e \in errs :
                            vout' = <<VLine("g_invalid", <<>>, <<>>, <<>>, 0, 0),
                                      VLine("g_error", <<>>, <<e>>, <<>>, 0, 0),
                                      VLine("g_path", <<>>, <<>>, e.path, 0, 0)>>
    /\ UNCHANGED <<script, schema, vdir, data, vtodo>>
    /\ UNCHANGED bvars

VNext == VerifyStart \/ VerifyFile \/ LoopDone \/ ValidateStart \/ ValidateEntry \/ GatewayVerify

\* the runs of the three Validator scripts
ValidatorSpec == VInit /\ [][VNext]_vars

\* ---------------------------------------------------- Validator: claims
VGlobbed == {name \in DOMAIN vdir : MatchesJson(name)}
Range(f) == {f[i] : i \in DOMAIN f}
Looping == vpc \in {"loop", "done"}

\* the names of the lines of out whose kind is in K, in the order printed
RECURSIVE NamesOf(_, _)
NamesOf(out, K) ==
    IF out = <<>> THEN <<>>
    ELSE (IF Head(out).kind \in K THEN <<Head(out).name>> ELSE <<>>) \o NamesOf(Tail(out), K)

Ascending(names) == \A i, j \in 1..Len(names) : i < j => StrLess(names[i], names[j])

FailKinds == {"schema_error", "failed", "g_error"}
PassKinds == {"follows_schema", "valid", "g_valid"}

\* the record a verdict line is about
InstOf(line) ==
    CASE script = "verify" -> vdir[line.name].inst
      [] script = "validate_models" -> data.entries[line.name]
      [] OTHER -> data.inst

\* the path printed with the violation of the failure line k: on the line
\* itself by verify.py, on the line after it by the other two scripts
PathPrinted(k) ==
    CASE script = "verify" -> vout[k].path
      [] script = "validate_models" -> vout[k + 1].path
      [] OTHER -> vout[k + 1].path

\* a path as verify.py prints it: its parts joined by "/", "<root>" when empty
Slashed(path) ==
    CASE Len(path) = 0 -> <<"<root>">>
      [] Len(path) = 1 -> path
      [] OTHER -> <<path[1], "/", path[2]>>

\* the path a script prints for an error whose path is path
Printed(path) == IF script = "verify" THEN Slashed(path) ELSE path

\* C5, as amended: of the constraints an entry violates the Validator reports
\* exactly one, an error highest up in the instance (the one validate raises),
\* with its path; an entry passes exactly when it violates none.
C5_OneViolationReported ==
    \A k \in 1..Len(vout) :
        /\ vout[k].kind \in FailKinds =>
            /\ Len(vout[k].errs) = 1
            /\ vout[k].errs[1] \in Errors(InstOf(vout[k]), schema)
            /\ \A o \in Errors(InstOf(vout[k]), schema) :
                    Len(vout[k].errs[1].path) <= Len(o.path)
            /\ PathPrinted(k) = Printed(vout[k].errs[1].path)
        /\ vout[k].kind \in PassKinds => Errors(InstOf(vout[k]), schema) = {}

C5_Witness ==
    /\ script = "verify"
    /\ vpc = "done"
    /\ \E k \in 1..Len(vout) :
        /\ vout[k].kind = "schema_error"
        /\ Cardinality(Errors(InstOf(vout[k]), schema)) = 2
        /\ Len(vout[k].errs) = 1

\* C5 as stated: a failing entry has as many violations reported as
\* constraints it violates.
C5_AsStated ==
    \A k \in 1..Len(vout) :
        vout[k].kind \in {"schema_error", "failed"} =>
            Len(vout[k].errs) = Cardinality(Errors(InstOf(vout[k]), schema))

\* the lines of out that name the entry name
LinesOf(name) == {k \in 1..Len(vout) : vout[k].name = name}

\* C6, as amended: verify.py never aborts; a *.json file of its directory
\* that is not valid JSON gets exactly one line, an 'invalid JSON' line with
\* the file's name and the line and column of the error, no schema verdict,
\* and the loop goes on to the files after it. validate_models.py and the
\* gateway's verify.py do not catch the error: a malformed data document ends
\* them with a JSONDecodeError before anything is printed.
C6_MalformedJson ==
    /\ script = "verify" =>
        /\ vpc # "fatal" /\ vexc = "none"
        /\ Looping => \A name \in VGlobbed :
            \/ name \in Range(vtodo)
            \/ /\ LinesOf(name) # {}
               /\ vdir[name].kind = "malformed" =>
                    \E k \in LinesOf(name) :
                        /\ LinesOf(name) = {k}
                        /\ vout[k].kind = "invalid_json"
                        /\ vout[k].lineno = vdir[name].lineno
                        /\ vout[k].colno = vdir[name].colno
        /\ vpc = "loop" => ENABLED VNext
    /\ (script \in {"validate_models", "gateway_verify"} /\ data.kind = "malformed") =>
        /\ vout = <<>>
        /\ vpc # "start" => vpc = "fatal" /\ vexc = "JSONDecodeError"

C6_Witness ==
    /\ script = "verify"
    /\ vpc = "done"
    /\ \E k \in 1..Len(vout) :
        /\ vout[k].kind = "invalid_json"
        /\ vout[k].lineno = 2
        /\ k < Len(vout)
        /\ vout[k + 1].kind \in {"follows_schema", "schema_error"}

\* C6 as stated: no run of the Validator aborts on a data file that is not
\* valid JSON.
C6_AsStated ==
    (data.kind = "malformed" \/ \E name \in VGlobbed : vdir[name].kind = "malformed") =>
        vpc # "fatal"

\* C7: verify.py prints one outcome line per *.json file, the lines printed
\* and the files still to visit being the files in ascending order of name;
\* validate_models.py prints one outcome line per name of all_models, the
\* lines printed and the names still to visit being all_models; a loop that
\* has not ended can always take its next step, and it ends with nothing left.
C7_OneVerdictPerEntry ==
    /\ (script = "verify" /\ Looping) =>
        LET seq == NamesOf(vout, {"invalid_json", "unreadable", "follows_schema", "schema_error"})
                       \o vtodo
        IN  /\ Ascending(seq)
            /\ Range(seq) = VGlobbed
    /\ (script = "validate_models" /\ Looping) =>
        NamesOf(vout, {"valid", "failed", "not_found"}) \o vtodo = data.all_models
    /\ vpc = "loop" => ENABLED VNext
    /\ vpc = "done" => vtodo = <<>>

C7_Witness ==
    /\ script = "validate_models"
    /\ vpc = "done"
    /\ \E i, j \in 1..Len(vout) :
        /\ i < j
        /\ vout[i].kind = "failed"
        /\ vout[j].kind = "not_found"
    /\ \E i, j \in 1..Len(vout) :
        /\ i < j
        /\ vout[i].kind = "not_found"
        /\ vout[j].kind = "valid"

\* the required fields a record lacks, at the top level and in pricing
MissingRequired(inst, sch) ==
    {f \in sch.required : inst[f] = "absent"}
    \cup (IF inst.pricing.k = "obj" /\ inst.pricing.input = "absent" THEN {"input"} ELSE {})

\* C10, as amended: a record that lacks a required field is reported as
\* failing, with one violation. When that violation is the one about a missing
\* field, the field is named in the message, and the path printed is that of
\* the object lacking it, which does not include the field's name: "<root>"
\* (verify.py) or the empty list (the other scripts) for a top-level field.
C10_MissingFieldReport ==
    \A k \in 1..Len(vout) :
        (vout[k].kind \in FailKinds \cup PassKinds /\ MissingRequired(InstOf(vout[k]), schema) # {}) =>
            /\ vout[k].kind \in FailKinds
            /\ Len(vout[k].errs) = 1
            /\ vout[k].errs[1].validator = "required" =>
                /\ vout[k].errs[1].field \in MissingRequired(InstOf(vout[k]), schema)
                /\ vout[k].errs[1].field \notin Range(PathPrinted(k))
                /\ PathPrinted(k) =
                    Printed(IF vout[k].errs[1].field = "input" THEN <<"pricing">> ELSE <<>>)

C10_Witness ==
    /\ script = "verify"
    /\ vpc = "done"
    /\ \E k \in 1..Len(vout) :
        /\ vout[k].kind = "schema_error"
        /\ vdir[vout[k].name].inst.provider = "absent"
        /\ vout[k].errs[1].field = "provider"
        /\ vout[k].path = <<"<root>">>

\* C10 as stated: for every required field a record lacks, a violation is
\* reported whose printed path includes the field's name.
C10_AsStated ==
    \A k \in 1..Len(vout) :
        vout[k].kind \in FailKinds \cup PassKinds =>
            \A f \in MissingRequired(InstOf(vout[k]), schema) :
                /\ vout[k].kind \in FailKinds
                /\ f \in Range(PathPrinted(k))

=============================================================================
